---- MODULE Spec2Model ----
(***************************************************************************)
(* Model of src/health_check.py: an asyncio program that loads a YAML list *)
(* of HTTP endpoints, groups them by URL host, and then forever probes     *)
(* every endpoint once per REFRESH_PERIOD, keeping a running average of    *)
(* each domain's availability fraction.                                    *)
(*                                                                         *)
(* Numbers.  Python computes the fractions and averages in binary floating *)
(* point; the model computes them in exact rational arithmetic (records    *)
(* [n, d] in lowest terms), so statements about averages are statements    *)
(* about the update rule in real arithmetic.                               *)
(*                                                                         *)
(* Time.  The reference point of time.monotonic() is arbitrary, so the     *)
(* model keeps the clock relative to the last start_time: clock is         *)
(* time.monotonic() - start_time, in whole seconds.  Nothing reads the     *)
(* clock between lines 166 and 184, so the time a cycle took is added in   *)
(* one place, just before line 184 reads it.  asyncio.sleep(d) resumes d   *)
(* seconds after the call or later, never earlier; the time between the    *)
(* wake-up and line 166 is part of that lateness.                          *)
(*                                                                         *)
(* Interrupts.  The f-string on line 98 needs Python >= 3.12, where        *)
(* asyncio.run installs its own SIGINT handler: the first SIGINT cancels   *)
(* the main task (the CancelledError is delivered at the task's next       *)
(* suspension point: at once when it is suspended in gather or sleep,      *)
(* otherwise when the running synchronous code reaches its next await),    *)
(* and a second SIGINT raises KeyboardInterrupt on the spot.  Either way   *)
(* asyncio.run ends in KeyboardInterrupt, which line 191 catches.          *)
(***************************************************************************)
EXTENDS Integers, Sequences, FiniteSets, TLC

\* ----- bounds of the model ------------------------------------------------
MaxEntries == 3      \* longest configuration list tried
MaxCycles == 2       \* monitoring cycles run before the model stops waking
MaxFairEntries == 2  \* longest configuration list tried under fairness
MaxTrackerCycles == 3  \* cycles fed to the tracker on its own
MaxLate == 1         \* seconds by which a sleep can end late

\* ----- program constants --------------------------------------------------
REFRESH_PERIOD == 15

\* ----- small helpers ------------------------------------------------------
Max(a, b) == IF a >= b THEN a ELSE b

Abs(a) == IF a < 0 THEN 0 - a ELSE a

GCD[a \in Nat, b \in Nat] == IF b = 0 THEN a ELSE GCD[b, a % b]

\* exact rational n/d, d > 0, in lowest terms
Rat(n, d) ==
  LET g == GCD[Abs(n), d]
  IN [n |-> n \div g, d |-> d \div g]

RAdd(x, y) == Rat(x.n * y.d + y.n * x.d, x.d * y.d)

RMul(x, y) == Rat(x.n * y.n, x.d * y.d)

\* x / k for an integer k > 0
RDivInt(x, k) == Rat(x.n, x.d * k)

RECURSIVE RSum(_)
RSum(s) == IF s = <<>> THEN Rat(0, 1) ELSE RAdd(Head(s), RSum(Tail(s)))

\* Python's round() of a rational: nearest integer, ties to the even one
round(x) ==
  LET q == x.n \div x.d
      r == x.n % x.d
  IN IF 2 * r < x.d THEN q
     ELSE IF 2 * r > x.d THEN q + 1
     ELSE IF q % 2 = 0 THEN q ELSE q + 1

\* ----- configuration ------------------------------------------------------
Hosts == {"a.com", "b.com"}

Missing == "<missing>"

\* One YAML list entry.  url is represented by its host (urlparse(url).netloc),
\* name by the entry's label; Missing stands for an absent key.
EntryAt(i) ==
  {[url |-> h, name |-> ToString(i)] : h \in Hosts}
    \cup {[url |-> Missing, name |-> ToString(i)]}
    \cup {[url |-> h, name |-> Missing] : h \in Hosts}

RECURSIVE ConfigsOfLen(_)
ConfigsOfLen(n) ==
  IF n = 0 THEN {<<>>}
  ELSE {Append(c, e) : c \in ConfigsOfLen(n - 1), e \in EntryAt(n)}

Configs == UNION {ConfigsOfLen(n) : n \in 0..MaxEntries}

\* an exception raised while reading or parsing (caught on line 26)
ParseError == [raised |-> TRUE, keys |-> <<>>, map |-> <<>>]

\* monitored_domains: an insertion-ordered defaultdict(list), kept as the
\* sequence of its keys and the list stored under each key
EmptyDomains == [raised |-> FALSE, keys |-> <<>>, map |-> <<>>]

\* mutant: no key is ever found, so every entry opens a domain of its own
KeyIndexNever(md, domain) == 0

KeyIndex(md, domain) ==
  IF \E k \in 1..Len(md.keys) : md.keys[k] = domain
  THEN CHOOSE k \in 1..Len(md.keys) : md.keys[k] = domain
  ELSE 0

\* mutant: the entry that opens a domain is not stored in it
AppendEndpointLater(md, domain, endpoint) ==
  LET k == KeyIndex(md, domain)
  IN IF k = 0
     THEN [md EXCEPT !.keys = Append(@, domain), !.map = Append(@, <<>>)]
     ELSE [md EXCEPT !.map[k] = Append(@, endpoint)]

\* mutant: the endpoint is put in front of the domain's list
AppendEndpointFront(md, domain, endpoint) ==
  LET k == KeyIndex(md, domain)
  IN IF k = 0
     THEN [md EXCEPT !.keys = Append(@, domain), !.map = Append(@, <<endpoint>>)]
     ELSE [md EXCEPT !.map[k] = <<endpoint>> \o @]

\* monitored_domains[domain].append(endpoint)
AppendEndpoint(md, domain, endpoint) ==
  LET k == KeyIndex(md, domain)
  IN IF k = 0
     THEN [md EXCEPT !.keys = Append(@, domain), !.map = Append(@, <<endpoint>>)]
     ELSE [md EXCEPT !.map[k] = Append(@, endpoint)]

RECURSIVE ParseLoop(_, _, _)
ParseLoop(entries, i, md) ==
  IF i > Len(entries) THEN md
  ELSE IF entries[i].url = Missing \/ entries[i].name = Missing THEN ParseError
  ELSE ParseLoop(entries, i + 1,
                 AppendEndpoint(md, entries[i].url,
                                [name |-> entries[i].name, url |-> entries[i].url]))

parse_config(entries) == ParseLoop(entries, 1, EmptyDomains)

\* mutant: a file that cannot be read or parsed is taken as it is
load_config_unchecked(readable, wellformed, entries) == parse_config(entries)

\* load_config: any failure in reading or parsing is an error
load_config(readable, wellformed, entries) ==
  IF ~readable \/ ~wellformed THEN ParseError ELSE parse_config(entries)

\* ----- the endpoint prober (check_endpoint_status) ------------------------
\* What one request can end in: a response with a status code, the
\* DOWN_REQUEST_TIMEOUT expiring, or any other exception.
Response(code) == [kind |-> "status", code |-> code]

Timeout == [kind |-> "timeout", code |-> 0]

OtherError == [kind |-> "error", code |-> 0]

NoOutcome == [kind |-> "none", code |-> 0]

\* no record written by the probe
NoMessage == [url |-> "", error |-> NoOutcome]

\* outcomes tried in the monitoring loop, one for each way out of lines
\* 89-99 (SpecProbe below tries every status code)
Outcomes == {Response(200), Timeout, OtherError}

\* mutant: the timeout is logged like any other exception
check_endpoint_status_logs_timeout(outcome) ==
  IF outcome.kind = "status"
  THEN [raised |-> FALSE, value |-> (200 <= outcome.code /\ outcome.code < 300),
        logged |-> FALSE]
  ELSE [raised |-> FALSE, value |-> FALSE, logged |-> TRUE]

\* mutant: the handler of line 97 is missing, so other exceptions escape
check_endpoint_status_uncaught(outcome) ==
  IF outcome.kind = "status"
  THEN [raised |-> FALSE, value |-> (200 <= outcome.code /\ outcome.code < 300),
        logged |-> FALSE]
  ELSE IF outcome.kind = "timeout"
  THEN [raised |-> FALSE, value |-> FALSE, logged |-> FALSE]
  ELSE [raised |-> TRUE, value |-> FALSE, logged |-> FALSE]

\* mutant: the upper end of the status range is included
check_endpoint_status_inclusive(outcome) ==
  IF outcome.kind = "status"
  THEN [raised |-> FALSE, value |-> (200 <= outcome.code /\ outcome.code <= 300),
        logged |-> FALSE]
  ELSE IF outcome.kind = "timeout"
  THEN [raised |-> FALSE, value |-> FALSE, logged |-> FALSE]
  ELSE [raised |-> FALSE, value |-> FALSE, logged |-> TRUE]

\* The call's result: raised says whether an exception left the coroutine,
\* value is the returned bool, logged whether logging.error was called.
check_endpoint_status(outcome) ==
  IF outcome.kind = "status"
  THEN [raised |-> FALSE, value |-> (200 <= outcome.code /\ outcome.code < 300),
        logged |-> FALSE]
  ELSE IF outcome.kind = "timeout"
  THEN [raised |-> FALSE, value |-> FALSE, logged |-> FALSE]
  ELSE [raised |-> FALSE, value |-> FALSE, logged |-> TRUE]

\* ----- the domain aggregator (get_domain_availability) ---------------------
\* mutant: the gather resumes its awaiter at the first result
GatherFirst(tasks) == \E t \in tasks : t.st = "done"

\* asyncio.gather without return_exceptions: resumes its awaiter once every
\* awaited task has a result
GatherDone(tasks) == \A t \in tasks : t.st = "done"

Count(tasks) == Cardinality({t \in tasks : t.value})

\* sum(endpoints_status) / len(endpoints_status)
get_domain_availability(tasks) == Rat(Count(tasks), Cardinality(tasks))

\* ----- the availability tracker (update rule of line 142) ------------------
\* mutant: the previous average is weighted by cycle instead of cycle - 1
NewAverageOffByOne(previous, cycle, availability_pct) ==
  RDivInt(RAdd(RMul(previous, Rat(cycle, 1)), availability_pct), cycle)

\* mutant: the average of the previous average and the new fraction
NewAverageSmoothed(previous, cycle, availability_pct) ==
  RDivInt(RAdd(previous, availability_pct), 2)

\* mutant: the previous average is not weighted at all
NewAverageKeepsSeed(previous, cycle, availability_pct) ==
  RDivInt(RAdd(previous, availability_pct), cycle)

NewAverage(previous, cycle, availability_pct) ==
  RDivInt(RAdd(RMul(previous, Rat(cycle - 1, 1)), availability_pct), cycle)

\* ----- state ---------------------------------------------------------------
VARIABLES
  argc,          \* len(sys.argv) - 1
  readable,      \* open(config_file_path) succeeds
  wellformed,    \* yaml.safe_load yields a list of mappings
  entries,       \* the entries of the configuration file
  seed,          \* the value line 162 stores for every domain
  pc,            \* where the main task is
  exit_status,   \* -1 while the process runs, else its exit status
  log,           \* kinds of log records written by main and __main__
  monitored_domains,
  domain_availability_averages,
  monitoring_cycle,
  sleep_delay,   \* argument of the last asyncio.sleep
  wake_at,       \* when that sleep is due
  probes,        \* check_endpoint_status tasks of the running gather
  results,       \* results of the get_domain_availability tasks, by key index
  upd_idx,       \* position of the update loop (line 141) in the key order
  last_report,   \* percentages of the last report, by domain
  clock,         \* time.monotonic() - start_time
  interrupts,    \* SIGINTs received
  pc_at_interrupt, \* history: pc when the first SIGINT arrived
  reports,       \* history: reports logged
  history        \* history: fractions fed to each domain's average, in order

vars ==
  <<argc, readable, wellformed, entries, seed, pc, exit_status, log, monitored_domains,
    domain_availability_averages, monitoring_cycle, sleep_delay, wake_at, probes, results, upd_idx, last_report, clock,
    interrupts, pc_at_interrupt, reports, history>>

inputVars == <<argc, readable, wellformed, entries, seed>>

NoResult == [n |-> -1, d |-> 1]

Domains == {monitored_domains.keys[k] : k \in 1..Len(monitored_domains.keys)}

NumDomains == Len(monitored_domains.keys)

Unresolved(p) == p.st \in {"pending", "inflight"}

\* the process as it is about to run main()
Init ==
  /\ argc \in 0..2
  /\ readable \in BOOLEAN
  /\ wellformed \in BOOLEAN
  /\ entries \in Configs
  /\ seed = Rat(0, 1)
  /\ pc = "start"
  /\ exit_status = -1
  /\ log = {}
  /\ monitored_domains = EmptyDomains
  /\ domain_availability_averages = <<>>
  /\ monitoring_cycle = 0
  /\ sleep_delay = 0
  /\ wake_at = 0
  /\ probes = {}
  /\ results = <<>>
  /\ upd_idx = 0
  /\ last_report = <<>>
  /\ clock = 0
  /\ interrupts = 0
  /\ pc_at_interrupt = "none"
  /\ reports = 0
  /\ history = <<>>

\* ----- startup (main, lines 148-164) ---------------------------------------
Startup ==
  /\ pc = "start"
  /\ IF argc # 1
     THEN /\ log' = log \cup {"argument error"}
          /\ exit_status' = 1
          /\ pc' = "exited"
          /\ UNCHANGED <<monitored_domains, domain_availability_averages, history>>
     ELSE LET md == load_config(readable, wellformed, entries)
          IN IF md.raised
             THEN /\ log' = log \cup {"config error"}
                  /\ exit_status' = 1
                  /\ pc' = "exited"
                  /\ UNCHANGED <<monitored_domains, domain_availability_averages, history>>
             ELSE /\ log' = log \cup {"using config", "monitoring domains"}
                  /\ monitored_domains' = md
                  /\ domain_availability_averages' =
                       [d \in {md.keys[k] : k \in 1..Len(md.keys)} |-> seed]
                  /\ history' = [d \in {md.keys[k] : k \in 1..Len(md.keys)} |-> <<>>]
                  /\ pc' = "loop_top"
                  /\ UNCHANGED exit_status
  /\ UNCHANGED <<inputVars, monitoring_cycle, sleep_delay,
                 wake_at, probes, results, upd_idx, last_report, clock,
                 interrupts, pc_at_interrupt, reports>>

\* ----- one monitoring cycle (main, lines 165-185) --------------------------
\* The CancelledError or KeyboardInterrupt leaves main, asyncio.run raises
\* KeyboardInterrupt, and lines 191-193 log the notice and exit with 0.
ExitOnInterrupt ==
  /\ log' = log \cup {"Exiting..."}
  /\ exit_status' = 0
  /\ pc' = "exited"

\* the tasks that both gathers create for one cycle
NewProbes(cycle) ==
  {[ep |-> monitored_domains.map[k][j].name, dom |-> k, idx |-> j, cycle |-> cycle,
    st |-> "pending", outcome |-> NoOutcome, value |-> FALSE, logged |-> FALSE,
    message |-> NoMessage] :
     <<k, j>> \in {kj \in (1..NumDomains) \X (1..MaxEntries + 1) :
                     kj[2] <= Len(monitored_domains.map[kj[1]])}}

\* lines 166-169 up to the await.  A pending cancellation is delivered when
\* the task suspends in gather, before any child task has run, and ends the
\* process.
StartCycle ==
  /\ pc = "loop_top"
  /\ clock' = 0
  /\ monitoring_cycle' = monitoring_cycle + 1
  /\ results' = [k \in 1..NumDomains |-> NoResult]
  /\ IF interrupts > 0
     THEN /\ ExitOnInterrupt
          /\ UNCHANGED probes
     ELSE /\ pc' = "gathering"
          /\ probes' = {p \in probes : Unresolved(p)} \cup NewProbes(monitoring_cycle + 1)
          /\ UNCHANGED <<exit_status, log>>
  /\ UNCHANGED <<inputVars, monitored_domains,
                 domain_availability_averages, sleep_delay, wake_at,
                 upd_idx, last_report, interrupts, pc_at_interrupt, reports,
                 history>>

\* the event loop starts tasks in the order the gathers created them
Precedes(p, q) == p.dom < q.dom \/ (p.dom = q.dom /\ p.idx < q.idx)

\* a check_endpoint_status task starts and sends its request (line 90)
IssueProbe ==
  /\ pc = "gathering"
  /\ \E p \in probes :
       /\ p.st = "pending"
       /\ \A q \in probes : q.st = "pending" => ~Precedes(q, p)
       /\ probes' = (probes \ {p}) \cup {[p EXCEPT !.st = "inflight"]}
  /\ UNCHANGED <<inputVars, pc, exit_status, log, monitored_domains,
                 domain_availability_averages, monitoring_cycle, sleep_delay, wake_at, results, upd_idx, last_report,
                 clock, interrupts, pc_at_interrupt, reports, history>>

\* the record logging.error writes on line 98: the url of the request
\* parameters and the exception
ErrorMessage(p, o) ==
  [url |-> monitored_domains.map[p.dom][p.idx].url, error |-> o]

\* the request of p ends in outcome o (lines 89-99)
Resolve(p, o) ==
  LET r == check_endpoint_status(o)
  IN [p EXCEPT !.st = IF r.raised THEN "raised" ELSE "done",
               !.outcome = o, !.value = r.value, !.logged = r.logged,
               !.message = IF r.logged THEN ErrorMessage(p, o) ELSE NoMessage]

ProbeReturn ==
  /\ pc = "gathering"
  /\ \E p \in probes, o \in Outcomes :
       /\ p.st = "inflight"
       /\ probes' = (probes \ {p}) \cup {Resolve(p, o)}
  /\ UNCHANGED <<inputVars, pc, exit_status, log, monitored_domains,
                 domain_availability_averages, monitoring_cycle, sleep_delay, wake_at, results, upd_idx, last_report,
                 clock, interrupts, pc_at_interrupt, reports, history>>

\* mutant: a domain's gather awaits the probes of every domain
TasksOfAnyDomain(k) == {p \in probes : p.cycle = monitoring_cycle}

\* the check_endpoint_status tasks that domain k's gather awaits (line 118)
TasksOf(k) == {p \in probes : p.dom = k /\ p.cycle = monitoring_cycle}

\* the inner gather of domain k resumes get_domain_availability (lines 118-119)
DomainReturn ==
  /\ pc = "gathering"
  /\ \E k \in 1..NumDomains :
       /\ results[k] = NoResult
       /\ GatherDone(TasksOf(k))
       /\ results' = [results EXCEPT ![k] =
                        get_domain_availability({p \in TasksOf(k) : p.st = "done"})]
  /\ UNCHANGED <<inputVars, pc, exit_status, log, monitored_domains,
                 domain_availability_averages, monitoring_cycle, sleep_delay, wake_at, probes, upd_idx, last_report,
                 clock, interrupts, pc_at_interrupt, reports, history>>

\* mutant: the outer gather resumes at the first domain result
AnyDomainDone == \E k \in 1..NumDomains : results[k] # NoResult

\* the outer gather resumes update_domains_availability (line 140)
AllDomainsDone == \A k \in 1..NumDomains : results[k] # NoResult

GatherReturn ==
  /\ pc = "gathering"
  /\ AllDomainsDone
  /\ pc' = "update"
  /\ upd_idx' = 1
  /\ probes' = {p \in probes : Unresolved(p)}   \* finished tasks are released
  /\ UNCHANGED <<inputVars, exit_status, log, monitored_domains,
                 domain_availability_averages, monitoring_cycle, sleep_delay, wake_at, results, last_report,
                 clock, interrupts, pc_at_interrupt, reports, history>>

\* one iteration of the for loop of lines 141-145
UpdateStep ==
  /\ pc = "update"
  /\ upd_idx <= NumDomains
  /\ LET domain == monitored_domains.keys[upd_idx]
         availability_pct == results[upd_idx]
     IN /\ domain_availability_averages' =
             [domain_availability_averages EXCEPT ![domain] =
                NewAverage(@, monitoring_cycle, availability_pct)]
        /\ history' = [history EXCEPT ![domain] = Append(@, availability_pct)]
  /\ upd_idx' = upd_idx + 1
  /\ UNCHANGED <<inputVars, pc, exit_status, log, monitored_domains, monitoring_cycle,
                 sleep_delay, wake_at, probes, results,
                 last_report, clock, interrupts, pc_at_interrupt, reports>>

\* the for loop ends and update_domains_availability returns to main
UpdateReturn ==
  /\ pc = "update"
  /\ upd_idx > NumDomains
  /\ pc' = "report"
  /\ UNCHANGED <<inputVars, exit_status, log, monitored_domains,
                 domain_availability_averages, monitoring_cycle, sleep_delay, wake_at, probes, results, upd_idx,
                 last_report, clock, interrupts, pc_at_interrupt, reports,
                 history>>

\* mutant: the percentage is truncated instead of rounded
ReportLinesTruncated(averages) ==
  [d \in DOMAIN averages |->
     RMul(averages[d], Rat(100, 1)).n \div RMul(averages[d], Rat(100, 1)).d]

\* the report of lines 176-181: one line per entry of the averages
ReportLines(averages) ==
  [d \in DOMAIN averages |-> round(RMul(averages[d], Rat(100, 1)))]

Report ==
  /\ pc = "report"
  /\ last_report' = ReportLines(domain_availability_averages)
  /\ reports' = reports + 1
  /\ log' = log \cup {"report"}
  /\ pc' = "elapsed"
  /\ UNCHANGED <<inputVars, exit_status, monitored_domains,
                 domain_availability_averages, monitoring_cycle, sleep_delay, wake_at, probes, results, upd_idx, clock, interrupts, pc_at_interrupt, history>>

\* mutant: the sleep lasts the whole period, whatever the cycle took
SleepDelayIgnoresElapsed(elapsed) == REFRESH_PERIOD

\* mutant: the delay is not clamped at zero
SleepDelayUnclamped(elapsed) == REFRESH_PERIOD - elapsed

\* line 185: the delay handed to asyncio.sleep
SleepDelay(elapsed) == Max(0, REFRESH_PERIOD - elapsed)

\* lines 184-185 up to the await.  A pending cancellation is delivered when
\* the task suspends in sleep, and ends the process.
Sleep ==
  /\ pc = "elapsed"
  /\ sleep_delay' = SleepDelay(clock)
  /\ wake_at' = clock + SleepDelay(clock)
  /\ IF interrupts > 0
     THEN ExitOnInterrupt
     ELSE pc' = "sleeping" /\ UNCHANGED <<exit_status, log>>
  /\ UNCHANGED <<inputVars, monitored_domains,
                 domain_availability_averages, monitoring_cycle, probes,
                 results, upd_idx, last_report, clock, interrupts,
                 pc_at_interrupt, reports, history>>

\* asyncio.sleep returns once its delay has passed
Wake ==
  /\ pc = "sleeping"
  /\ clock >= wake_at
  /\ monitoring_cycle < MaxCycles
  /\ pc' = "loop_top"
  /\ sleep_delay' = 0
  /\ wake_at' = 0
  /\ UNCHANGED <<inputVars, exit_status, log, monitored_domains,
                 domain_availability_averages, monitoring_cycle, probes, results, upd_idx, last_report, clock, interrupts,
                 pc_at_interrupt, reports, history>>

\* ----- the clock -----------------------------------------------------------
\* durations of a cycle tried besides 0: below, at and above the period
TickSteps == {1, REFRESH_PERIOD, REFRESH_PERIOD + 1}

\* the time that has passed since line 166, before line 184 reads the clock
Tick ==
  /\ pc = "elapsed"
  /\ clock = 0
  /\ \E dt \in TickSteps : clock' = dt
  /\ UNCHANGED <<inputVars, pc, exit_status, log, monitored_domains,
                 domain_availability_averages, monitoring_cycle, sleep_delay, wake_at, probes, results, upd_idx,
                 last_report, interrupts, pc_at_interrupt, reports, history>>

\* how late the timer of a sleep can fire
LateSteps == 0..MaxLate

\* time passes while the main task sleeps, until its timer fires
SleepTick ==
  /\ pc = "sleeping"
  /\ clock < wake_at
  /\ \E late \in LateSteps : clock' = wake_at + late
  /\ UNCHANGED <<inputVars, pc, exit_status, log, monitored_domains,
                 domain_availability_averages, monitoring_cycle, sleep_delay, wake_at, probes, results, upd_idx,
                 last_report, interrupts, pc_at_interrupt, reports, history>>

\* ----- interrupts (lines 188-193) ------------------------------------------
\* mutant: a cancellation is noticed in the sleep only
SuspendedInSleep == pc = "sleeping"

\* the main task is suspended in an await (gather, line 140, or sleep, line 185)
Suspended == pc \in {"gathering", "sleeping"}

Running == pc \in {"loop_top", "gathering", "update", "report", "elapsed", "sleeping"}

\* cancelling a gather cancels the tasks it still waits for; the finished
\* ones are released with it
CancelTasks(ps) ==
  {[p EXCEPT !.st = "cancelled"] : p \in {q \in ps : Unresolved(q)}}

\* the results of the get_domain_availability tasks are dropped with the
\* cancelled gather: line 140 never assigns them
DiscardResults(rs) == [k \in DOMAIN rs |-> NoResult]

\* first SIGINT: asyncio.run's handler cancels the main task.  A suspended
\* task is cancelled where it waits; a running one goes on to its next await.
Interrupt ==
  /\ Running
  /\ interrupts = 0
  /\ interrupts' = 1
  /\ pc_at_interrupt' = pc
  /\ IF Suspended
     THEN /\ ExitOnInterrupt
          /\ probes' = CancelTasks(probes)
          /\ results' = DiscardResults(results)
     ELSE UNCHANGED <<pc, exit_status, log, probes, results>>
  /\ UNCHANGED <<inputVars, monitored_domains,
                 domain_availability_averages, monitoring_cycle,
                 sleep_delay, wake_at, upd_idx, last_report,
                 clock, reports, history>>

\* a further SIGINT, before the running main task has reached its next
\* await: the handler raises KeyboardInterrupt where the process is
InterruptAgain ==
  /\ Running
  /\ interrupts = 1
  /\ interrupts' = 2
  /\ ExitOnInterrupt
  /\ probes' = CancelTasks(probes)
  /\ results' = DiscardResults(results)
  /\ UNCHANGED <<inputVars, monitored_domains,
                 domain_availability_averages, monitoring_cycle,
                 sleep_delay, wake_at, upd_idx, last_report,
                 clock, pc_at_interrupt, reports, history>>

Next ==
  \/ Startup
  \/ StartCycle
  \/ IssueProbe
  \/ ProbeReturn
  \/ DomainReturn
  \/ GatherReturn
  \/ UpdateStep
  \/ UpdateReturn
  \/ Report
  \/ Sleep
  \/ Wake
  \/ Tick
  \/ SleepTick
  \/ Interrupt
  \/ InterruptAgain

Spec == Init /\ [][Next]_vars

\* the inputs with which main() exits before the loop (lines 149-153, 26-28)
StartupFailure ==
  \/ argc # 1
  \/ ~readable
  \/ ~wellformed
  \/ \E i \in 1..Len(entries) : entries[i].url = Missing \/ entries[i].name = Missing

\* The event loop runs a task that is ready: the main task's own steps are
\* taken once they are enabled.
MainStep ==
  StartCycle \/ GatherReturn \/ UpdateStep \/ UpdateReturn \/ Report \/ Sleep

\* runs that get past startup, with configurations of up to MaxFairEntries
FairInit ==
  /\ Init
  /\ ~StartupFailure
  /\ Len(entries) <= MaxFairEntries

\* the steps of the program and the interrupts; the clock moves only to end
\* a sleep (every cycle takes no time)
FairNext ==
  \/ Startup
  \/ StartCycle
  \/ IssueProbe
  \/ ProbeReturn
  \/ DomainReturn
  \/ GatherReturn
  \/ UpdateStep
  \/ UpdateReturn
  \/ Report
  \/ Sleep
  \/ Wake
  \/ SleepTick
  \/ Interrupt
  \/ InterruptAgain

FairSpec == FairInit /\ [][FairNext]_vars /\ WF_vars(MainStep)

\* The event loop also runs every child task that is ready, every request
\* ends (with a response, an error, or the timeout of line 91), and time
\* passes while the main task sleeps.
LiveSpec ==
  /\ FairInit
  /\ [][FairNext]_vars
  /\ WF_vars(MainStep)
  /\ WF_vars(IssueProbe)
  /\ WF_vars(ProbeReturn)
  /\ WF_vars(DomainReturn)
  /\ WF_vars(SleepTick)
  /\ WF_vars(Wake)

\* ----- the prober on its own ----------------------------------------------
\* status codes a response can carry
StatusCodes == 100..599

AllOutcomes == {Response(c) : c \in StatusCodes} \cup {Timeout, OtherError}

\* one configured endpoint, its request of cycle 1 in flight
InitProbe ==
  /\ argc = 1
  /\ readable = TRUE
  /\ wellformed = TRUE
  /\ entries \in {c \in ConfigsOfLen(1) : ~parse_config(c).raised}
  /\ seed = Rat(0, 1)
  /\ pc = "gathering"
  /\ exit_status = -1
  /\ log = {"using config", "monitoring domains"}
  /\ monitored_domains = parse_config(entries)
  /\ domain_availability_averages = [d \in {entries[1].url} |-> Rat(0, 1)]
  /\ monitoring_cycle = 1
  /\ sleep_delay = 0
  /\ wake_at = 0
  /\ probes = {[ep |-> entries[1].name, dom |-> 1, idx |-> 1, cycle |-> 1,
                st |-> "inflight",
                outcome |-> NoOutcome, value |-> FALSE, logged |-> FALSE,
                message |-> NoMessage]}
  /\ results = <<NoResult>>
  /\ upd_idx = 0
  /\ last_report = <<>>
  /\ clock = 0
  /\ interrupts = 0
  /\ pc_at_interrupt = "none"
  /\ reports = 0
  /\ history = [d \in {entries[1].url} |-> <<>>]

ProbeReturnAny ==
  /\ \E p \in probes, o \in AllOutcomes :
       /\ p.st = "inflight"
       /\ probes' = (probes \ {p}) \cup {Resolve(p, o)}
  /\ UNCHANGED <<inputVars, pc, exit_status, log, monitored_domains,
                 domain_availability_averages, monitoring_cycle, sleep_delay, wake_at, results, upd_idx, last_report,
                 clock, interrupts, pc_at_interrupt, reports, history>>

SpecProbe == InitProbe /\ [][ProbeReturnAny]_vars

\* ----- the tracker on its own ----------------------------------------------
\* values tried for what line 162 stores (the program stores 0)
Seeds == {Rat(0, 1), Rat(1, 3), Rat(5, 1), Rat(0 - 2, 1)}

\* fractions a domain's gather can return
Fractions == {Rat(0, 1), Rat(1, 2), Rat(1, 1)}

\* two domains of one endpoint each
TrackerConfig ==
  <<[url |-> "a.com", name |-> "1"], [url |-> "b.com", name |-> "2"]>>

\* main as it enters the loop (line 165), the averages holding the seed
InitTracker ==
  /\ argc = 1
  /\ readable = TRUE
  /\ wellformed = TRUE
  /\ entries = TrackerConfig
  /\ seed \in Seeds
  /\ pc = "loop_top"
  /\ exit_status = -1
  /\ log = {"using config", "monitoring domains"}
  /\ monitored_domains = parse_config(entries)
  /\ domain_availability_averages = [d \in Hosts |-> seed]
  /\ monitoring_cycle = 0
  /\ sleep_delay = 0
  /\ wake_at = 0
  /\ probes = {}
  /\ results = <<>>
  /\ upd_idx = 0
  /\ last_report = <<>>
  /\ clock = 0
  /\ interrupts = 0
  /\ pc_at_interrupt = "none"
  /\ reports = 0
  /\ history = [d \in Hosts |-> <<>>]

\* lines 166-140 in one step: the cycle starts and the outer gather returns
\* some fraction for every domain
FeedFractions ==
  /\ pc = "loop_top"
  /\ monitoring_cycle < MaxTrackerCycles
  /\ monitoring_cycle' = monitoring_cycle + 1
  /\ results' \in [1..NumDomains -> Fractions]
  /\ pc' = "update"
  /\ upd_idx' = 1
  /\ UNCHANGED <<inputVars, exit_status, log, monitored_domains,
                 domain_availability_averages, sleep_delay, wake_at, probes,
                 last_report, clock, interrupts, pc_at_interrupt, reports,
                 history>>

\* lines 176-185 in one step: the rest of the loop body, back to line 165
NextCycle ==
  /\ pc = "update"
  /\ upd_idx > NumDomains
  /\ pc' = "loop_top"
  /\ UNCHANGED <<inputVars, exit_status, log, monitored_domains,
                 domain_availability_averages, monitoring_cycle, sleep_delay,
                 wake_at, probes, results, upd_idx, last_report, clock,
                 interrupts, pc_at_interrupt, reports, history>>

TrackerNext ==
  \/ FeedFractions
  \/ UpdateStep
  \/ NextCycle

SpecTracker == InitTracker /\ [][TrackerNext]_vars

\* ----- properties ----------------------------------------------------------
Mean(s) == RDivInt(RSum(s), Len(s))

\* C1: after N >= 1 updates of a domain its stored average times N equals the
\* sum of the N fractions fed to it (fractions 1/2 then 1 give 3/4), and once
\* a cycle's update has completed N is the cycle counter.
C1_AverageIsMean ==
  /\ \A d \in DOMAIN history :
       LET N == Len(history[d])
       IN N >= 1 =>
            /\ RMul(domain_availability_averages[d], Rat(N, 1)) = RSum(history[d])
            /\ history[d] = <<[n |-> 1, d |-> 2]>> =>
                 domain_availability_averages[d] = [n |-> 1, d |-> 2]
            /\ history[d] = <<[n |-> 1, d |-> 2], [n |-> 1, d |-> 1]>> =>
                 domain_availability_averages[d] = [n |-> 3, d |-> 4]
  /\ pc \in {"report", "elapsed", "sleeping"} =>
       \A d \in DOMAIN history : Len(history[d]) = monitoring_cycle

C1_Witness ==
  \E d \in DOMAIN history :
    /\ history[d] = <<Rat(1, 2), Rat(1, 1)>>
    /\ domain_availability_averages[d] = Rat(3, 4)

\* C2: while any probe is pending or in flight it belongs to the current
\* cycle, and the update and the report of every earlier cycle are complete.
C2_NoOverlap ==
  \A p \in probes :
    Unresolved(p) =>
      /\ p.cycle = monitoring_cycle
      /\ reports = p.cycle - 1
      /\ \A d \in DOMAIN history : Len(history[d]) = p.cycle - 1

C2_Witness == \E p \in probes : p.st = "inflight" /\ p.cycle = 2 /\ reports = 1

\* C3: no outcome of a request makes check_endpoint_status raise; it returns
\* a bool, and False for a timeout.
C3_ProbeNeverRaises ==
  \A p \in probes :
    /\ p.st # "raised"
    /\ p.st = "done" =>
         /\ p.value \in BOOLEAN
         /\ p.outcome.kind = "timeout" => p.value = FALSE

C3_Witness ==
  \E p \in probes : p.st = "done" /\ p.outcome.kind = "timeout" /\ p.value = FALSE

\* C4: a domain's result exists only when all n of its probes are done, and
\* it is k/n for the k probes that returned Up.
C4_Fraction ==
  pc = "gathering" =>
    \A k \in 1..NumDomains :
      results[k] # NoResult =>
        LET n == Len(monitored_domains.map[k])
            ts == TasksOf(k)
        IN /\ n >= 1
           /\ Cardinality(ts) = n
           /\ \A t \in ts : t.st = "done"
           /\ results[k] = Rat(Cardinality({t \in ts : t.value = TRUE}), n)

C4_Witness ==
  /\ pc = "gathering"
  /\ \E k \in 1..NumDomains :
       /\ results[k] = Rat(1, 2)
       /\ \E t, u \in TasksOf(k) : t.value /\ ~u.value /\ u.st = "done"

\* C5: a probe that got a response is Up exactly when the status code is one
\* of 200..299; 204 is Up, 301, 404 and 500 are Down.
C5_StatusClass ==
  \A p \in probes :
    (p.st = "done" /\ p.outcome.kind = "status") =>
      /\ p.value = TRUE <=> p.outcome.code \in 200..299
      /\ p.outcome.code = 204 => p.value = TRUE
      /\ p.outcome.code \in {301, 404, 500} => p.value = FALSE

C5_Witness ==
  \E p \in probes : p.st = "done" /\ p.outcome = Response(204) /\ p.value = TRUE

\* C6: with t the time from start_time to the sleep call, the delay of the
\* sleep is max(0, P - t), never negative, and for t >= P the sleep is due
\* at once.
C6_SleepDelay ==
  pc = "sleeping" =>
    LET t == wake_at - sleep_delay
    IN /\ t >= 0
       /\ sleep_delay >= 0
       /\ sleep_delay = (IF t >= REFRESH_PERIOD THEN 0 ELSE REFRESH_PERIOD - t)
       /\ t >= REFRESH_PERIOD => clock >= wake_at

C6_Witness ==
  /\ pc = "sleeping"
  /\ sleep_delay = 0
  /\ wake_at > REFRESH_PERIOD

\* C7: on a run with a startup failure the process logs an error and exits
\* with status 1, and never increments the cycle counter or issues a probe.
C7_StartupFailure ==
  StartupFailure =>
    /\ monitoring_cycle = 0
    /\ probes = {}
    /\ reports = 0
    /\ pc \in {"start", "exited"}
    /\ pc = "exited" =>
         /\ exit_status = 1
         /\ log \in {{"argument error"}, {"config error"}}

C7_Witness ==
  /\ pc = "exited"
  /\ exit_status = 1
  /\ argc = 1 /\ readable /\ wellformed
  /\ \E i \in 1..Len(entries) : entries[i].name = Missing
  /\ "config error" \in log

Interrupted == interrupts > 0

ExitedOnInterrupt == pc = "exited" /\ exit_status = 0 /\ "Exiting..." \in log

\* C8 as claimed: an interrupt leads to the exit notice and exit status 0,
\* and once it has arrived the cycle counter and the averages stay as they are.
C8_AsClaimed ==
  /\ Interrupted ~> ExitedOnInterrupt
  /\ [][Interrupted =>
          /\ monitoring_cycle' = monitoring_cycle
          /\ domain_availability_averages' = domain_availability_averages
          /\ history' = history]_vars

\* C8: an interrupt leads to the exit notice and exit status 0.  After it no
\* probe is created or issued and the main task never suspends in gather or
\* sleep again; the averages change only if it arrived inside the update
\* loop, and the cycle counter only if it arrived between the return of the
\* sleep and the gather (once, on the way to the exit).
C8_Interrupt ==
  /\ Interrupted ~> ExitedOnInterrupt
  /\ [][Interrupted =>
          /\ \A p \in probes' : Unresolved(p) => p \in probes /\ p.st = "inflight"
          /\ pc' \notin {"gathering", "sleeping"}
          /\ (domain_availability_averages' # domain_availability_averages
                \/ history' # history) => pc_at_interrupt = "update"
          /\ monitoring_cycle' # monitoring_cycle =>
               pc_at_interrupt = "loop_top" /\ pc' = "exited"]_vars

C8_Witness ==
  /\ ExitedOnInterrupt
  /\ pc_at_interrupt = "update"
  /\ monitoring_cycle = 1
  /\ reports = 1
  /\ NumDomains = 2

C10_Report ==
  /\ pc \in {"loop_top", "elapsed", "sleeping"} => reports = monitoring_cycle
  /\ pc \in {"gathering", "update", "report"} => reports = monitoring_cycle - 1
  /\ pc = "report" => \A d \in Domains : Len(history[d]) = monitoring_cycle
  /\ pc = "elapsed" =>
       /\ DOMAIN last_report = Domains
       /\ \A d \in Domains :
            /\ Len(history[d]) = monitoring_cycle
            /\ last_report[d] = round(RMul(Mean(history[d]), Rat(100, 1)))

C10_Witness ==
  /\ pc = "elapsed"
  /\ reports = 2
  /\ \E d \in Domains : history[d] = <<Rat(1, 2), Rat(1, 1)>> /\ last_report[d] = 75

\* C11: whatever value the averages were initialised with, after a domain's
\* first update its average is that cycle's fraction, and after every later
\* update it is the mean of the fractions alone.
C11_SeedHasNoInfluence ==
  \A d \in DOMAIN history :
    /\ Len(history[d]) = 1 => domain_availability_averages[d] = history[d][1]
    /\ Len(history[d]) >= 1 => domain_availability_averages[d] = Mean(history[d])

C11_Witness ==
  /\ seed # Rat(0, 1)
  /\ \E d \in DOMAIN history :
       /\ Len(history[d]) = 1
       /\ domain_availability_averages[d] = history[d][1]
       /\ domain_availability_averages[d] # seed

\* how often the fraction f occurs in the sequence s
Occurrences(s, f) == Cardinality({i \in 1..Len(s) : s[i] = f})

IsPermutation(s, t) ==
  /\ Len(s) = Len(t)
  /\ \A i \in 1..Len(s) : Occurrences(s, s[i]) = Occurrences(t, s[i])

\* C12: two domains that have been fed the same fractions over the same
\* cycles, in any order, hold the same average.
C12_OrderIndependent ==
  \A d1, d2 \in DOMAIN history :
    IsPermutation(history[d1], history[d2]) =>
      domain_availability_averages[d1] = domain_availability_averages[d2]

C12_Witness ==
  /\ history["a.com"] = <<Rat(0, 1), Rat(1, 2), Rat(1, 1)>>
  /\ history["b.com"] = <<Rat(1, 1), Rat(0, 1), Rat(1, 2)>>
  /\ domain_availability_averages["a.com"] = Rat(1, 2)
  /\ domain_availability_averages["b.com"] = Rat(1, 2)

\* C13 as claimed: when an average or the cycle counter has just changed, no
\* probe of the current cycle is pending or not yet started.
C13_AsClaimed ==
  [][(domain_availability_averages' # domain_availability_averages
        \/ monitoring_cycle' # monitoring_cycle) =>
       ~\E p \in probes' : p.cycle = monitoring_cycle' /\ Unresolved(p)]_vars

\* C13: once main has initialised them, an average is written only in the
\* update loop, when every domain's gather of the cycle has returned and no
\* probe is unresolved.  The cycle counter is incremented when no probe is
\* unresolved and the report of the cycle before is written, but before the
\* probes of the cycle it counts: those are created after the increment and
\* none of them has started.
C13_MutationOutsideFanOut ==
  [][/\ (pc # "start"
           /\ domain_availability_averages' # domain_availability_averages) =>
          /\ pc = "update"
          /\ \A p \in probes : ~Unresolved(p)
          /\ \A k \in 1..NumDomains : results[k] # NoResult
          /\ \A p \in probes' : ~Unresolved(p)
     /\ monitoring_cycle' # monitoring_cycle =>
          /\ pc = "loop_top"
          /\ \A p \in probes : ~Unresolved(p)
          /\ reports = monitoring_cycle
          /\ \A p \in probes' :
               Unresolved(p) => p.cycle = monitoring_cycle' /\ p.st = "pending"]_vars

C13_Witness ==
  /\ pc = "gathering"
  /\ monitoring_cycle = 2
  /\ \A d \in Domains : Len(history[d]) = 1
  /\ \E p \in probes : p.st = "pending" /\ p.cycle = 2
  /\ ~\E p \in probes : p.st # "pending"

\* the hosts of the configuration's entries
ConfiguredDomains == {entries[i].url : i \in 1..Len(entries)}

\* C14: a domain's average is written at most once per cycle, and exactly
\* once by the time the cycle's report is due; the write of cycle N is the
\* domain's N-th, made while the counter is N.  The counter is 0 until the
\* first cycle starts, changes only by +1 at a cycle's start, and the
\* averages always have exactly the configured domains as their keys.
C14_OncePerCycle ==
  /\ [](/\ pc = "start" => monitoring_cycle = 0
        /\ DOMAIN domain_availability_averages = Domains
        /\ (pc # "start" /\ ~StartupFailure) => Domains = ConfiguredDomains
        /\ \A d \in Domains :
             /\ Len(history[d]) \in {monitoring_cycle - 1, monitoring_cycle}
             /\ pc \in {"report", "elapsed", "sleeping", "loop_top"} =>
                  Len(history[d]) = monitoring_cycle)
  /\ [][/\ monitoring_cycle' # monitoring_cycle =>
             monitoring_cycle' = monitoring_cycle + 1 /\ pc = "loop_top"
        /\ (pc # "start" /\ domain_availability_averages' # domain_availability_averages) =>
             history' # history
        /\ history' # history =>
             \/ pc = "start"
             \/ /\ monitoring_cycle' = monitoring_cycle
                /\ \E d \in Domains :
                     /\ Len(history'[d]) = Len(history[d]) + 1
                     /\ Len(history'[d]) = monitoring_cycle
                     /\ \A e \in Domains \ {d} :
                          /\ history'[e] = history[e]
                          /\ domain_availability_averages'[e] =
                               domain_availability_averages[e]]_vars

C14_Witness ==
  /\ pc = "sleeping"
  /\ interrupts = 0
  /\ monitoring_cycle = 2
  /\ NumDomains = 2
  /\ \A d \in Domains : Len(history[d]) = 2

\* the probes of domain k's own endpoints in the running cycle
OwnProbes(k) == {p \in probes : p.dom = k /\ p.cycle = monitoring_cycle}

\* C15: a probe that ends Down changes nothing but its own result: no other
\* probe, no domain's fraction, no average, and the cycle goes on.  Every
\* domain's fraction is computed from the results of its own endpoints only
\* (all of them, each completed), and every domain's average from its own
\* fractions only, so a Down probe of another domain leaves both as they
\* would be had that probe been Up.
C15_FailureIsolation ==
  /\ [](pc = "gathering" =>
          /\ \A p \in probes : p.st \in {"pending", "inflight", "done"}
          /\ \A k \in 1..NumDomains :
               results[k] # NoResult =>
                 /\ \A p \in OwnProbes(k) : p.st = "done"
                 /\ Cardinality(OwnProbes(k)) = Len(monitored_domains.map[k])
                 /\ results[k] = Rat(Cardinality({p \in OwnProbes(k) : p.value}),
                                     Cardinality(OwnProbes(k))))
  /\ [][/\ \A p \in probes :
             (p.st = "inflight"
                /\ \E q \in probes' :
                     q.dom = p.dom /\ q.idx = p.idx /\ q.st = "done" /\ ~q.value) =>
               /\ \A r \in probes \ {p} : r \in probes'
               /\ results' = results
               /\ domain_availability_averages' = domain_availability_averages
               /\ pc' = pc
               /\ exit_status' = exit_status
        /\ \A k \in 1..NumDomains :
             (pc = "update" /\ history'[monitored_domains.keys[k]]
                                # history[monitored_domains.keys[k]]) =>
               domain_availability_averages'[monitored_domains.keys[k]] =
                 Mean(Append(history[monitored_domains.keys[k]], results[k]))]_vars

C15_Witness ==
  /\ pc = "gathering"
  /\ \E k, j \in 1..NumDomains :
       /\ k # j
       /\ results[k] = Rat(1, 1)
       /\ results[j] = Rat(1, 2)
       /\ \E p, q \in OwnProbes(j) :
            p.outcome = OtherError /\ ~p.value /\ q.st = "done" /\ q.value

\* C16: unless an interrupt arrives, from every state of the loop the
\* program goes on to complete the update and the report of every cycle and
\* to start the next one, until it sleeps at the end of the last of the
\* MaxCycles cycles the model runs.
C16_Progress ==
  (pc # "start" /\ pc # "exited") ~>
    (Interrupted
       \/ (/\ pc = "sleeping"
           /\ monitoring_cycle = MaxCycles
           /\ reports = MaxCycles
           /\ \A d \in Domains : Len(history[d]) = MaxCycles))

C16_Witness ==
  /\ pc = "sleeping"
  /\ interrupts = 0
  /\ monitoring_cycle = MaxCycles
  /\ reports = MaxCycles
  /\ NumDomains = 2
  /\ clock = REFRESH_PERIOD

\* C17: a finished probe has written an error record exactly when its
\* request ended in an exception other than the timeout, and the record
\* carries the endpoint's url and the exception; a timeout and an error are
\* both Down, and a response of any status writes nothing.
C17_ErrorLogging ==
  \A p \in probes :
    p.st = "done" =>
      /\ p.logged <=> p.outcome.kind = "error"
      /\ p.message # NoMessage <=> p.logged
      /\ p.outcome.kind = "error" =>
           /\ p.value = FALSE
           /\ p.message.url = monitored_domains.map[p.dom][p.idx].url
           /\ p.message.url \in Hosts
           /\ p.message.error = p.outcome
      /\ p.outcome.kind = "timeout" => p.value = FALSE /\ p.message = NoMessage
      /\ p.outcome.kind = "status" => p.message = NoMessage

C17_Witness ==
  \E p \in probes :
    /\ p.st = "done"
    /\ p.outcome = OtherError
    /\ p.logged
    /\ p.message = [url |-> entries[1].url, error |-> OtherError]

\* C18: every domain of the parsed configuration has at least one endpoint,
\* so the gather of every domain awaits at least one probe and the fraction
\* it returns has a divisor of at least 1.
C18_NoEmptyDomain ==
  /\ Len(monitored_domains.map) = NumDomains
  /\ \A k \in 1..NumDomains :
       /\ Len(monitored_domains.map[k]) >= 1
       /\ pc = "gathering" =>
            /\ Cardinality({p \in probes : p.dom = k}) = Len(monitored_domains.map[k])
            /\ results[k] # NoResult =>
                 results[k].d >= 1 /\ results[k].d <= Len(monitored_domains.map[k])

C18_Witness ==
  /\ pc = "gathering"
  /\ NumDomains = 2
  /\ Len(entries) = 2
  /\ \A k \in 1..NumDomains : results[k] # NoResult /\ results[k].d = 1

\* the rational x lies in [0, 1]
InUnitInterval(x) == x.d >= 1 /\ 0 <= x.n /\ x.n <= x.d

\* C19: every domain's average, every fraction a domain's gather has
\* returned and every fraction fed to an average lies in [0, 1].
C19_UnitInterval ==
  /\ \A d \in DOMAIN domain_availability_averages :
       InUnitInterval(domain_availability_averages[d])
  /\ \A k \in DOMAIN results :
       results[k] # NoResult => InUnitInterval(results[k])
  /\ \A d \in DOMAIN history :
       \A i \in 1..Len(history[d]) : InUnitInterval(history[d][i])

C19_Witness ==
  /\ pc = "report"
  /\ monitoring_cycle = 2
  /\ \E d, e \in Domains :
       /\ domain_availability_averages[d] = Rat(1, 1)
       /\ domain_availability_averages[e] = Rat(0, 1)
       /\ history[e] = <<Rat(0, 1), Rat(0, 1)>>

\* C20 as claimed: when a sleep ends, the time since the recorded start of
\* the cycle is exactly max(P, t), t being the elapsed time of line 184.
C20_AsClaimed ==
  [][(pc = "sleeping" /\ pc' = "loop_top") =>
       clock = Max(REFRESH_PERIOD, wake_at - sleep_delay)]_vars

\* C20: when a sleep ends, the time since the recorded start of the cycle
\* is at least max(P, t), t being the elapsed time of line 184, and more
\* only by the lateness of the sleep; the next start is recorded then, so
\* every cycle after the first starts at least P after the one before, and
\* after an overrun (t >= P) without any wait.
C20_Cadence ==
  [][/\ (pc = "sleeping" /\ pc' = "loop_top") =>
          LET t == wake_at - sleep_delay
          IN /\ clock >= Max(REFRESH_PERIOD, t)
             /\ clock <= Max(REFRESH_PERIOD, t) + MaxLate
             /\ t >= REFRESH_PERIOD => clock = t /\ sleep_delay = 0
             /\ clock' = clock
     /\ (pc = "loop_top" /\ monitoring_cycle >= 1
           /\ monitoring_cycle' # monitoring_cycle) =>
          /\ clock >= REFRESH_PERIOD
          /\ clock' = 0
          /\ monitoring_cycle' = monitoring_cycle + 1]_vars

C20_Witness ==
  /\ pc = "sleeping"
  /\ interrupts = 0
  /\ monitoring_cycle = 1
  /\ sleep_delay = REFRESH_PERIOD - 1
  /\ clock = REFRESH_PERIOD + MaxLate

====
